---- MODULE Spec2Model ----
(***************************************************************************)
(* Model of src/main.py: a scanner that looks for a 4-byte signed-delta    *)
(* pattern in a ROM image, shifts every match by 0xA7, decodes it as       *)
(* CP932, normalises the text twice, writes a report and commits it.       *)
(*                                                                         *)
(* Bytes are integers 0..255, byte strings are sequences of bytes and      *)
(* text is a sequence of Unicode code points.  Python's 0-based offsets    *)
(* are kept: offset i is the element i+1 of a sequence.                    *)
(***************************************************************************)
EXTENDS Integers, Sequences, FiniteSets, TLC

VARIABLES
    pc,            \* position of main()
    input,         \* "noarg", "missing" or "ok": what sys.argv names
    raw,           \* contents of the ROM file on disk
    rom_data,      \* main's rom_data
    i,             \* loop index of search_candidates
    candidates,    \* list of (offset, seq) built by search_candidates
    j,             \* number of candidates the report loop has handled
    output_lines,  \* main's output_lines
    file,          \* hidden_passwords.txt: [written, lines]
    git_step,      \* number of git commands that have completed
    stdout,        \* messages printed so far
    exit_status,   \* -1 while running, then the process's exit status
    traceback,     \* TRUE when an exception left main() uncaught
    arg,           \* argument of a function called on its own
    ret,           \* what that call returned
    ret2           \* what the function returned when called again on ret

vars == <<pc, input, raw, rom_data, i, candidates, j, output_lines, file,
          git_step, stdout, exit_status, traceback, arg, ret, ret2>>

(***************************************************************************)
(* Bounds of the model.                                                    *)
(***************************************************************************)
MaxLen == 7        \* longest payload of the pipeline specification
MaxBlocks == 1     \* ROM images of the header specification have up to
                   \* this many 8192-byte banks
MaxStr == 3        \* longest string of the kana-fold specification

Byte == 0..255

Min(a, b) == IF a < b THEN a ELSE b

\* Python's s[a:b] for 0 <= a <= b
Slice(s, a, b) == SubSeq(s, a + 1, Min(b, Len(s)))

(***************************************************************************)
(* to_signed, detect_header, search_candidates' loop body.  A definition   *)
(* whose comment starts with "faulty" is a deliberately wrong variant of   *)
(* the one that follows it; the theorems are re-checked with it in place   *)
(* to show that they depend on the code.                                   *)
(***************************************************************************)
\* faulty: the byte is used unsigned
to_signed_unsigned(b) == b

to_signed(b) == IF b < 128 THEN b ELSE b - 256

\* faulty: any() where the code has all()
detect_header_any(data) ==
    IF Len(data) % 8192 = 512
    THEN IF \E b \in 1..Len(Slice(data, 0, 512)) : Slice(data, 0, 512)[b] \in {0, 255}
         THEN Slice(data, 512, Len(data))
         ELSE data
    ELSE data

\* the value detect_header returns
detect_header(data) ==
    IF Len(data) % 8192 = 512
    THEN IF \A b \in 1..Len(Slice(data, 0, 512)) : Slice(data, 0, 512)[b] \in {0, 255}
         THEN Slice(data, 512, Len(data))
         ELSE data
    ELSE data

\* whether detect_header prints its notice
header_detected(data) ==
    /\ Len(data) % 8192 = 512
    /\ \A b \in 1..Len(Slice(data, 0, 512)) : Slice(data, 0, 512)[b] \in {0, 255}

\* faulty: the middle difference is not tested
pattern_no_mid(seq) ==
    LET a == seq[1]  b == seq[2]  c == seq[3]  d == seq[4]
        diff0 == to_signed(a) - to_signed(b)
        diff2 == to_signed(c) - to_signed(d)
    IN  diff0 = 28 /\ diff2 = 12

\* the condition of line 35 on the window seq
pattern(seq) ==
    LET a == seq[1]  b == seq[2]  c == seq[3]  d == seq[4]
        diff0 == to_signed(a) - to_signed(b)
        diff1 == to_signed(b) - to_signed(c)
        diff2 == to_signed(c) - to_signed(d)
    IN  diff0 = 28 /\ diff1 = -7 /\ diff2 = 12

\* rom_data[i:i+4]
window(data, n) == Slice(data, n, n + 4)

(***************************************************************************)
(* convert_sequence                                                        *)
(***************************************************************************)
\* faulty: no & 0xFF
convert_sequence_nomask(seq) == [n \in 1..Len(seq) |-> seq[n] + 167]

convert_sequence(seq) == [n \in 1..Len(seq) |-> (seq[n] + 167) % 256]

\* faulty: the match is put at the front of the list
scan_body_front(cands, data, n) ==
    IF pattern(window(data, n))
    THEN <<[offset |-> n, seq |-> window(data, n)]>> \o cands
    ELSE cands

\* one iteration of search_candidates' loop, lines 30-36
scan_body(cands, data, n) ==
    IF pattern(window(data, n))
    THEN Append(cands, [offset |-> n, seq |-> window(data, n)])
    ELSE cands

(***************************************************************************)
(* decode_shift_jis.  bytes.decode("cp932") is modelled by what the codec  *)
(* does: a byte below 0x81 is itself, 0xA0 and 0xFD..0xFF are the private  *)
(* code points U+F8F0..U+F8F3, 0xA1..0xDF are the half-width forms         *)
(* U+FF61..U+FF9F, and 0x81..0x9F, 0xE0..0xFC lead a two-byte character    *)
(* that must be assigned in the code page.  main() only decodes            *)
(* convert_sequence of a matched window, in which the byte after a byte x  *)
(* is x-28, x+7 or x-12 (mod 256); Cp932Double is the code page's table of *)
(* two-byte characters restricted to those pairs.                          *)
(***************************************************************************)
Cp932Double ==
    <<129, 101>> :> 8216 @@ <<129, 117>> :> 12300 @@ <<129, 136>> :> 8756 @@ <<130, 102>> :> 65319 @@
    <<130, 118>> :> 65335 @@ <<130, 137>> :> 65353 @@ <<131, 103>> :> 12488 @@ <<131, 119>> :> 12504 @@
    <<131, 138>> :> 12522 @@ <<132, 120>> :> 1079 @@ <<132, 139>> :> 1097 @@ <<135, 107>> :> 13091 @@
    <<135, 142>> :> 13181 @@ <<137, 109>> :> 30408 @@ <<137, 125>> :> 21421 @@ <<137, 144>> :> 33398 @@
    <<138, 110>> :> 31339 @@ <<138, 126>> :> 27179 @@ <<138, 145>> :> 26907 @@ <<139, 111>> :> 40653 @@
    <<139, 146>> :> 25312 @@ <<140, 112>> :> 32153 @@ <<140, 128>> :> 21127 @@ <<140, 147>> :> 20860 @@
    <<141, 113>> :> 33322 @@ <<141, 129>> :> 39321 @@ <<141, 148>> :> 40288 @@ <<142, 114>> :> 23629 @@
    <<142, 130>> :> 29509 @@ <<142, 149>> :> 27503 @@ <<143, 115>> :> 23803 @@ <<143, 131>> :> 32020 @@
    <<143, 150>> :> 21465 @@ <<144, 116>> :> 33102 @@ <<144, 132>> :> 25512 @@ <<144, 151>> :> 38619 @@
    <<145, 117>> :> 29245 @@ <<145, 133>> :> 27133 @@ <<145, 152>> :> 36973 @@ <<146, 118>> :> 33268 @@
    <<146, 134>> :> 20013 @@ <<146, 153>> :> 36015 @@ <<147, 119>> :> 21162 @@ <<147, 135>> :> 23798 @@
    <<147, 154>> :> 31572 @@ <<148, 120>> :> 32954 @@ <<148, 136>> :> 34687 @@ <<148, 155>> :> 32283 @@
    <<149, 121>> :> 20904 @@ <<149, 137>> :> 36000 @@ <<149, 156>> :> 24489 @@ <<150, 122>> :> 22868 @@
    <<150, 138>> :> 27097 @@ <<150, 157>> :> 24930 @@ <<151, 123>> :> 39178 @@ <<151, 139>> :> 38647 @@
    <<151, 158>> :> 29827 @@ <<152, 159>> :> 24332 @@ <<153, 125>> :> 20969 @@ <<153, 141>> :> 21060 @@
    <<153, 160>> :> 21164 @@ <<154, 126>> :> 22072 @@ <<154, 142>> :> 22196 @@ <<154, 161>> :> 22285 @@
    <<155, 143>> :> 23542 @@ <<155, 162>> :> 23660 @@ <<156, 128>> :> 24601 @@ <<156, 144>> :> 24650 @@
    <<156, 163>> :> 24722 @@ <<157, 129>> :> 25534 @@ <<157, 145>> :> 25623 @@ <<157, 164>> :> 25816 @@
    <<158, 130>> :> 26713 @@ <<158, 146>> :> 26810 @@ <<158, 165>> :> 26839 @@ <<159, 131>> :> 27668 @@
    <<159, 147>> :> 27794 @@ <<159, 166>> :> 27958 @@ <<224, 196>> :> 29431 @@ <<224, 212>> :> 29546 @@
    <<224, 231>> :> 29688 @@ <<225, 197>> :> 30519 @@ <<225, 213>> :> 30640 @@ <<225, 232>> :> 31018 @@
    <<226, 198>> :> 31751 @@ <<226, 214>> :> 31828 @@ <<226, 233>> :> 31923 @@ <<227, 199>> :> 32745 @@
    <<227, 215>> :> 32838 @@ <<227, 234>> :> 32922 @@ <<228, 200>> :> 33760 @@ <<228, 216>> :> 33965 @@
    <<228, 235>> :> 33985 @@ <<229, 201>> :> 34905 @@ <<229, 217>> :> 34978 @@ <<229, 236>> :> 35084 @@
    <<230, 202>> :> 36033 @@ <<230, 218>> :> 36045 @@ <<230, 237>> :> 36331 @@ <<231, 203>> :> 37257 @@
    <<231, 219>> :> 37345 @@ <<231, 238>> :> 37451 @@ <<232, 204>> :> 38722 @@ <<232, 220>> :> 38795 @@
    <<232, 239>> :> 38901 @@ <<233, 205>> :> 39921 @@ <<233, 221>> :> 39969 @@ <<233, 240>> :> 40234 @@
    <<237, 209>> :> 27184 @@ <<237, 225>> :> 28054 @@ <<237, 244>> :> 28943 @@ <<238, 210>> :> 38715 @@
    <<238, 226>> :> 39797 @@ <<238, 245>> :> 8566 @@ <<240, 212>> :> 57491 @@ <<240, 228>> :> 57507 @@
    <<240, 247>> :> 57526 @@ <<241, 213>> :> 57680 @@ <<241, 229>> :> 57696 @@ <<241, 248>> :> 57715 @@
    <<242, 214>> :> 57869 @@ <<242, 230>> :> 57885 @@ <<242, 249>> :> 57904 @@ <<243, 215>> :> 58058 @@
    <<243, 231>> :> 58074 @@ <<243, 250>> :> 58093 @@ <<244, 216>> :> 58247 @@ <<244, 232>> :> 58263 @@
    <<244, 251>> :> 58282 @@ <<245, 217>> :> 58436 @@ <<245, 233>> :> 58452 @@ <<245, 252>> :> 58471 @@
    <<246, 218>> :> 58625 @@ <<246, 234>> :> 58641 @@ <<247, 219>> :> 58814 @@ <<247, 235>> :> 58830 @@
    <<248, 220>> :> 59003 @@ <<248, 236>> :> 59019 @@ <<249, 221>> :> 59192 @@ <<249, 237>> :> 59208 @@
    <<250, 222>> :> 26362 @@ <<250, 238>> :> 27243 @@ <<251, 223>> :> 37744 @@ <<251, 239>> :> 38723

Cp932IsLead(b) == (129 <= b /\ b <= 159) \/ (224 <= b /\ b <= 252)

Cp932IsSingle(b) == (0 <= b /\ b <= 128) \/ (160 <= b /\ b <= 223) \/ (253 <= b /\ b <= 255)

Cp932Single(b) ==
    IF b <= 128 THEN b
    ELSE IF b = 160 THEN 63728
    ELSE IF b <= 223 THEN 65377 + (b - 161)
    ELSE 63729 + (b - 253)

RECURSIVE Cp932Decode(_)
\* data.decode("cp932"): [ok |-> FALSE] stands for UnicodeDecodeError
Cp932Decode(data) ==
    IF data = <<>> THEN [ok |-> TRUE, text |-> <<>>]
    ELSE LET b == Head(data) IN
         IF Cp932IsSingle(b)
         THEN LET r == Cp932Decode(Tail(data))
              IN  [ok |-> r.ok, text |-> IF r.ok THEN <<Cp932Single(b)>> \o r.text ELSE <<>>]
         ELSE IF Cp932IsLead(b) /\ Len(data) >= 2 /\ <<b, data[2]>> \in DOMAIN Cp932Double
         THEN LET r == Cp932Decode(Tail(Tail(data)))
              IN  [ok |-> r.ok,
                   text |-> IF r.ok THEN <<Cp932Double[<<b, data[2]>>]>> \o r.text ELSE <<>>]
         ELSE [ok |-> FALSE, text |-> <<>>]

\* the marker of line 50, "<" U+30C7 U+30B3 U+30FC U+30C9 U+4E0D U+53EF ">"
Sentinel == <<60, 12487, 12467, 12540, 12489, 19981, 21487, 62>>

\* faulty: the handler returns an empty string
decode_shift_jis_empty(data) ==
    IF Cp932Decode(data).ok THEN Cp932Decode(data).text ELSE <<>>

decode_shift_jis(data) ==
    IF Cp932Decode(data).ok THEN Cp932Decode(data).text ELSE Sentinel

(***************************************************************************)
(* to_fullwidth.  unicodedata.normalize("NFKC", s) on the code points that *)
(* Cp932Decode and Sentinel produce: the compatibility mapping of every    *)
(* code point, then the canonical composition of a katakana with a         *)
(* following U+3099 or U+309A.                                             *)
(***************************************************************************)
\* NFKC of U+FF61..U+FF9F, in order
HalfwidthKana ==
    <<    12290, 12300, 12301, 12289, 12539, 12530, 12449, 12451, 12453,
    12455, 12457, 12515, 12517, 12519, 12483, 12540, 12450, 12452,
    12454, 12456, 12458, 12459, 12461, 12463, 12465, 12467, 12469,
    12471, 12473, 12475, 12477, 12479, 12481, 12484, 12486, 12488,
    12490, 12491, 12492, 12493, 12494, 12495, 12498, 12501, 12504,
    12507, 12510, 12511, 12512, 12513, 12514, 12516, 12518, 12520,
    12521, 12522, 12523, 12524, 12525, 12527, 12531, 12441, 12442 >>

NfkcMap(c) ==
    IF 65281 <= c /\ c <= 65374 THEN <<c - 65248>>        \* U+FF01..U+FF5E
    ELSE IF 65377 <= c /\ c <= 65439 THEN <<HalfwidthKana[c - 65376]>>
    ELSE IF c = 13091 THEN <<12475, 12531, 12488>>        \* U+3323
    ELSE IF c = 13181 THEN <<22823, 27491>>               \* U+337D
    ELSE IF c = 8566 THEN <<118, 105, 105>>               \* U+2176
    ELSE <<c>>

RECURSIVE NfkcDecompose(_)
NfkcDecompose(s) ==
    IF s = <<>> THEN <<>> ELSE NfkcMap(Head(s)) \o NfkcDecompose(Tail(s))

\* katakana that take the voiced mark at the next code point
VoicedNext == {12459, 12461, 12463, 12465, 12467, 12469, 12471, 12473, 12475,
               12477, 12479, 12481, 12484, 12486, 12488, 12495, 12498, 12501,
               12504, 12507, 12541}

\* the code point base + mark compose to, or 0
NfkcPair(base, mark) ==
    IF mark = 12441 /\ base \in VoicedNext THEN base + 1
    ELSE IF mark = 12441 /\ base = 12454 THEN 12532                   \* U+30A6
    ELSE IF mark = 12441 /\ 12527 <= base /\ base <= 12530 THEN base + 8
    ELSE IF mark = 12442 /\ base \in {12495, 12498, 12501, 12504, 12507} THEN base + 2
    ELSE 0

RECURSIVE NfkcCompose(_)
NfkcCompose(s) ==
    IF Len(s) < 2 THEN s
    ELSE IF NfkcPair(s[1], s[2]) # 0
    THEN NfkcCompose(<<NfkcPair(s[1], s[2])>> \o Tail(Tail(s)))
    ELSE <<s[1]>> \o NfkcCompose(Tail(s))

to_fullwidth(s) == NfkcCompose(NfkcDecompose(s))

(***************************************************************************)
(* katakana_to_hiragana                                                    *)
(***************************************************************************)
\* faulty: the range ends before U+30F6
katakana_to_hiragana_short(s) ==
    [n \in 1..Len(s) |-> IF 12449 <= s[n] /\ s[n] < 12534 THEN s[n] - 96 ELSE s[n]]

\* faulty: the range starts at the hiragana block
katakana_to_hiragana_wide(s) ==
    [n \in 1..Len(s) |-> IF 12353 <= s[n] /\ s[n] <= 12534 THEN s[n] - 96 ELSE s[n]]

katakana_to_hiragana(s) ==
    [n \in 1..Len(s) |-> IF 12449 <= s[n] /\ s[n] <= 12534 THEN s[n] - 96 ELSE s[n]]

(***************************************************************************)
(* The report: f"{offset:X}", f"{b:02X}", f"{len(candidates)}" and the     *)
(* block of lines 83-90.  A formatted number is its sequence of digits.    *)
(***************************************************************************)
HexDigits == <<"0", "1", "2", "3", "4", "5", "6", "7", "8", "9",
               "A", "B", "C", "D", "E", "F">>

RECURSIVE HexX(_)
HexX(n) ==
    IF n < 16 THEN <<HexDigits[n + 1]>>
    ELSE HexX(n \div 16) \o <<HexDigits[(n % 16) + 1]>>

Hex02(b) == IF b < 16 THEN <<"0">> \o HexX(b) ELSE HexX(b)

RECURSIVE Decimal(_)
Decimal(n) ==
    IF n < 10 THEN <<HexDigits[n + 1]>>
    ELSE Decimal(n \div 10) \o <<HexDigits[(n % 10) + 1]>>

HexBytes(seq) == [n \in 1..Len(seq) |-> Hex02(seq[n])]

\* line 76
count_line(cands) == [kind |-> "count", count |-> Decimal(Len(cands))]

\* lines 79-90 for one candidate
candidate_block(cand) ==
    LET conv == convert_sequence(cand.seq)
        decoded == decode_shift_jis(conv)
        fullwidth == to_fullwidth(decoded)
        hiragana == katakana_to_hiragana(fullwidth)
    IN  [kind |-> "block", offset |-> HexX(cand.offset), seq |-> HexBytes(cand.seq),
         conv |-> HexBytes(conv), decoded |-> decoded, fullwidth |-> fullwidth,
         hiragana |-> hiragana]

(***************************************************************************)
(* Inputs.                                                                 *)
(***************************************************************************)
\* a payload is a first byte and the differences of neighbouring bytes
Deltas == {28, -7, 12}

Starts == {27, 89, 90, 127, 161, 224}

RECURSIVE SumTo(_, _)
SumTo(ds, n) == IF n = 0 THEN 0 ELSE SumTo(ds, n - 1) + ds[n]

Payload(b0, ds) == [n \in 1..(Len(ds) + 1) |-> (b0 - SumTo(ds, n - 1) + 1024) % 256]

PipelineInputs ==
    {<<>>} \cup
    {Payload(b0, ds) : b0 \in Starts,
                       ds \in UNION {[1..n -> Deltas] : n \in 0..(MaxLen - 1)}}

\* ROM images around the sizes detect_header tests, with one byte poked
HeaderLengths ==
    {0, 4, 8192} \cup {512 + 8192 * m + e : m \in 0..MaxBlocks, e \in {-1, 0, 1}}

HeaderImage(len, fill, p, v) ==
    [n \in 1..len |->
        IF n = p THEN v
        ELSE IF n <= 512
             THEN (IF fill = 1 THEN (IF n % 2 = 0 THEN 0 ELSE 255) ELSE fill)
             ELSE n % 251]

HeaderInputs ==
    {HeaderImage(len, fill, p, v) :
        len \in HeaderLengths, fill \in {0, 1, 255},
        p \in {0, 1, 512, 513}, v \in {0, 1, 127, 254}}

\* 4-byte windows in which one position takes every byte value
ConvertInputs ==
    {[base EXCEPT ![p] = x] :
        base \in {<<0, 228, 235, 223>>, <<255, 255, 255, 255>>},
        p \in 1..4, x \in Byte}

\* "A", U+3041, U+3096, U+30A0, U+30A1, U+30C7, U+30F6, U+30F7, U+30FC, U+FF76
KanaAlphabet == {65, 12353, 12438, 12448, 12449, 12487, 12534, 12535, 12540, 65398}

KanaInputs == UNION {[1..n -> KanaAlphabet] : n \in 0..MaxStr}

(***************************************************************************)
(* The state after construction.                                           *)
(***************************************************************************)
InitWith(p, inp, r, a) ==
    /\ pc = p
    /\ input = inp
    /\ raw = r
    /\ rom_data = <<>>
    /\ i = 0
    /\ candidates = <<>>
    /\ j = 0
    /\ output_lines = <<>>
    /\ file = [written |-> FALSE, lines |-> <<>>]
    /\ git_step = 0
    /\ stdout = <<>>
    /\ exit_status = -1
    /\ traceback = FALSE
    /\ arg = a
    /\ ret = <<>>
    /\ ret2 = <<>>

Init ==
    \/ \E r \in PipelineInputs : InitWith("start", "ok", r, <<>>)
    \/ \E inp \in {"noarg", "missing"} : InitWith("start", inp, <<>>, <<>>)

InitHeader == \E r \in HeaderInputs : InitWith("start", "ok", r, <<>>)

InitConvert == \E a \in ConvertInputs : InitWith("call_convert", "ok", <<>>, a)

InitKana == \E a \in KanaInputs : InitWith("call_kana", "ok", <<>>, a)

(***************************************************************************)
(* main()                                                                  *)
(***************************************************************************)
\* lines 61-63
UsageError ==
    /\ pc = "start"
    /\ input = "noarg"
    /\ stdout' = Append(stdout, "usage")
    /\ exit_status' = 1
    /\ pc' = "exit"
    /\ UNCHANGED <<input, raw, rom_data, i, candidates, j, output_lines, file,
                   git_step, traceback, arg, ret, ret2>>

\* lines 65-68
InputNotFound ==
    /\ pc = "start"
    /\ input = "missing"
    /\ stdout' = Append(stdout, "notfound")
    /\ exit_status' = 1
    /\ pc' = "exit"
    /\ UNCHANGED <<input, raw, rom_data, i, candidates, j, output_lines, file,
                   git_step, traceback, arg, ret, ret2>>

\* lines 70-71
ReadFile ==
    /\ pc = "start"
    /\ input = "ok"
    /\ rom_data' = raw
    /\ pc' = "detect"
    /\ UNCHANGED <<input, raw, i, candidates, j, output_lines, file, git_step,
                   stdout, exit_status, traceback, arg, ret, ret2>>

\* line 73, and the entry of search_candidates (line 28)
DetectHeader ==
    /\ pc = "detect"
    /\ rom_data' = detect_header(rom_data)
    /\ stdout' = IF header_detected(rom_data) THEN Append(stdout, "header") ELSE stdout
    /\ candidates' = <<>>
    /\ i' = 0
    /\ pc' = "scan"
    /\ UNCHANGED <<input, raw, j, output_lines, file, git_step, exit_status,
                   traceback, arg, ret, ret2>>

\* one iteration of for i in range(len(rom_data) - 3), lines 29-36
ScanStep ==
    /\ pc = "scan"
    /\ i < Len(rom_data) - 3
    /\ candidates' = scan_body(candidates, rom_data, i)
    /\ i' = i + 1
    /\ UNCHANGED <<pc, input, raw, rom_data, j, output_lines, file, git_step,
                   stdout, exit_status, traceback, arg, ret, ret2>>

\* the loop is exhausted: line 37, then line 76
ScanDone ==
    /\ pc = "scan"
    /\ ~(i < Len(rom_data) - 3)
    /\ output_lines' = <<count_line(candidates)>>
    /\ j' = 0
    /\ pc' = "report"
    /\ UNCHANGED <<input, raw, rom_data, i, candidates, file, git_step, stdout,
                   exit_status, traceback, arg, ret, ret2>>

\* one iteration of for offset, seq in candidates, lines 78-90
ProcessCandidate ==
    /\ pc = "report"
    /\ j < Len(candidates)
    /\ output_lines' = Append(output_lines, candidate_block(candidates[j + 1]))
    /\ j' = j + 1
    /\ UNCHANGED <<pc, input, raw, rom_data, i, candidates, file, git_step,
                   stdout, exit_status, traceback, arg, ret, ret2>>

\* lines 92-95
WriteReport ==
    /\ pc = "report"
    /\ j = Len(candidates)
    /\ file' = [written |-> TRUE, lines |-> output_lines]
    /\ stdout' = Append(stdout, "saved")
    /\ git_step' = 0
    /\ pc' = "git"
    /\ UNCHANGED <<input, raw, rom_data, i, candidates, j, output_lines,
                   exit_status, traceback, arg, ret, ret2>>

\* the commands of lines 99-103, in order
GitCommands == <<"config user.name", "config user.email", "add", "commit", "push">>

\* subprocess.run(..., check=True) returns: the command exited with 0
GitSucceeds ==
    /\ pc = "git"
    /\ git_step < Len(GitCommands)
    /\ git_step' = git_step + 1
    /\ IF git_step + 1 = Len(GitCommands)
       THEN /\ stdout' = Append(stdout, "pushed")     \* line 104
            /\ exit_status' = 0
            /\ pc' = "exit"
       ELSE UNCHANGED <<stdout, exit_status, pc>>
    /\ UNCHANGED <<input, raw, rom_data, i, candidates, j, output_lines, file,
                   traceback, arg, ret, ret2>>

\* the command exited with a non-zero status: CalledProcessError, lines 105-106
GitFails ==
    /\ pc = "git"
    /\ git_step < Len(GitCommands)
    /\ stdout' = Append(stdout, "giterror")
    /\ exit_status' = 0
    /\ pc' = "exit"
    /\ UNCHANGED <<input, raw, rom_data, i, candidates, j, output_lines, file,
                   git_step, traceback, arg, ret, ret2>>

\* the git executable cannot be started: subprocess.run raises an OSError
\* (FileNotFoundError, PermissionError), which line 105 does not name, so it
\* leaves main() and the interpreter exits with status 1 and a traceback
GitNotStarted ==
    /\ pc = "git"
    /\ git_step < Len(GitCommands)
    /\ traceback' = TRUE
    /\ exit_status' = 1
    /\ pc' = "exit"
    /\ UNCHANGED <<input, raw, rom_data, i, candidates, j, output_lines, file,
                   git_step, stdout, arg, ret, ret2>>

(***************************************************************************)
(* Functions called on their own.                                          *)
(***************************************************************************)
CallConvert ==
    /\ pc = "call_convert"
    /\ ret' = convert_sequence(arg)
    /\ pc' = "returned_convert"
    /\ UNCHANGED <<input, raw, rom_data, i, candidates, j, output_lines, file,
                   git_step, stdout, exit_status, traceback, arg, ret2>>

CallKana ==
    /\ pc = "call_kana"
    /\ ret' = katakana_to_hiragana(arg)
    /\ pc' = "returned_kana"
    /\ UNCHANGED <<input, raw, rom_data, i, candidates, j, output_lines, file,
                   git_step, stdout, exit_status, traceback, arg, ret2>>

\* the fold applied to its own result
CallKanaAgain ==
    /\ pc = "returned_kana"
    /\ ret2' = katakana_to_hiragana(ret)
    /\ pc' = "returned_twice"
    /\ UNCHANGED <<input, raw, rom_data, i, candidates, j, output_lines, file,
                   git_step, stdout, exit_status, traceback, arg, ret>>

(***************************************************************************)
(* Specifications.                                                         *)
(***************************************************************************)
Next ==
    \/ UsageError
    \/ InputNotFound
    \/ ReadFile
    \/ DetectHeader
    \/ ScanStep
    \/ ScanDone
    \/ ProcessCandidate
    \/ WriteReport
    \/ GitSucceeds
    \/ GitFails
    \/ GitNotStarted

Spec == Init /\ [][Next]_vars

NextHeader == ReadFile \/ DetectHeader

SpecHeader == InitHeader /\ [][NextHeader]_vars

NextConvert == CallConvert

SpecConvert == InitConvert /\ [][NextConvert]_vars

NextKana == CallKana \/ CallKanaAgain

SpecKana == InitKana /\ [][NextKana]_vars

(***************************************************************************)
(* Properties.  The scan and the transforms are restated here on the bytes *)
(* of the payload, independently of the operators that model the code.     *)
(***************************************************************************)
Signed(b) == IF b >= 128 THEN b - 256 ELSE b

\* offset n of data starts a 4-byte window with the differences 28, -7, 12
Matches(data, n) ==
    /\ 0 <= n
    /\ n <= Len(data) - 4
    /\ Signed(data[n + 1]) - Signed(data[n + 2]) = 28
    /\ Signed(data[n + 2]) - Signed(data[n + 3]) = -7
    /\ Signed(data[n + 3]) - Signed(data[n + 4]) = 12

MatchSet(data) == {n \in 0..Len(data) : Matches(data, n)}

WindowAt(data, n) == <<data[n + 1], data[n + 2], data[n + 3], data[n + 4]>>

ScanFinished == input = "ok" /\ pc \in {"report", "git", "exit"}

InFoldRange(c) == 12449 <= c /\ c <= 12534

\* C1: search_candidates returns offset i with the window data[i..i+3] if
\* and only if 0 <= i <= L-4 and the three differences of the signed bytes,
\* taken without wraparound, are 28, -7 and 12; nothing when L < 4.
C1_ScanIsExact ==
    ScanFinished =>
        /\ \A n \in 0..Len(rom_data) :
              Matches(rom_data, n) <=>
                 \E c \in 1..Len(candidates) :
                    /\ candidates[c].offset = n
                    /\ candidates[c].seq = WindowAt(rom_data, n)
        /\ \A c \in 1..Len(candidates) : candidates[c].offset \in MatchSet(rom_data)
        /\ (Len(rom_data) < 4 => candidates = <<>>)

\* a finished scan that kept one window and rejected one whose differences
\* are 28, -7, 12 only modulo 256
C1_Witness ==
    /\ ScanFinished
    /\ Len(candidates) >= 1
    /\ \E n \in 0..(Len(rom_data) - 4) :
          /\ ~Matches(rom_data, n)
          /\ (rom_data[n + 1] - rom_data[n + 2]) % 256 = 28
          /\ (rom_data[n + 2] - rom_data[n + 3]) % 256 = 249
          /\ (rom_data[n + 3] - rom_data[n + 4]) % 256 = 12

\* C2: detect_header removes exactly the first 512 bytes if and only if
\* len(data) mod 8192 = 512 and each of the first 512 bytes is 0x00 or 0xFF;
\* otherwise it returns the data unchanged.
C2_HeaderStrip ==
    pc = "scan" =>
        IF Len(raw) % 8192 = 512 /\ \A n \in 1..512 : raw[n] \in {0, 255}
        THEN /\ Len(rom_data) = Len(raw) - 512
             /\ \A n \in 1..Len(rom_data) : rom_data[n] = raw[n + 512]
        ELSE rom_data = raw

\* an image of 8192+512 bytes that lost its header
C2_Witness ==
    /\ pc = "scan"
    /\ Len(raw) = 8704
    /\ Len(rom_data) = 8192
    /\ stdout = <<"header">>

\* C3: convert_sequence maps every byte x of a window to (x + 0xA7) mod 256
\* in place, and (y - 0xA7) mod 256 on the result gives the window back, for
\* all 256 byte values in every position.
C3_ConvertBijection ==
    pc = "returned_convert" =>
        /\ Len(ret) = Len(arg)
        /\ \A n \in 1..Len(arg) : ret[n] \in Byte /\ ret[n] = (arg[n] + 167) % 256
        /\ [n \in 1..Len(ret) |-> (ret[n] - 167 + 256) % 256] = arg
        /\ (arg = <<0, 228, 235, 223>> => ret = <<167, 139, 146, 134>>)
        /\ {convert_sequence(<<x>>)[1] : x \in Byte} = Byte

\* a window whose first byte wraps around: 0xFF becomes 0xA6
C3_Witness ==
    /\ pc = "returned_convert"
    /\ arg[1] = 255
    /\ ret[1] = 166

\* C4: katakana_to_hiragana keeps the length and replaces the character at
\* a position by the one 0x60 lower exactly when it is in U+30A1..U+30F6.
C4_KanaFold ==
    pc = "returned_kana" =>
        /\ Len(ret) = Len(arg)
        /\ \A n \in 1..Len(arg) :
              IF InFoldRange(arg[n]) THEN ret[n] = arg[n] - 96 ELSE ret[n] = arg[n]

\* a string with U+30F6 (folded), U+30FC and U+3041 (both kept)
C4_Witness ==
    /\ pc = "returned_kana"
    /\ arg = <<12534, 12540, 12353>>
    /\ ret = <<12438, 12540, 12353>>

\* C5: every payload gets a report with a count line equal to the number of
\* matches and one block per match in scan order; a block whose transformed
\* bytes do not decode carries the marker, and the blocks after it are there.
NthMatch(data, c) ==
    CHOOSE n \in MatchSet(data) : Cardinality({m \in MatchSet(data) : m < n}) = c - 1

Transformed(data, n) == [t \in 1..4 |-> (data[n + t] + 167) % 256]

C5_DecodeFailureIsLocal ==
    /\ (pc = "report" => j <= Len(candidates))
    /\ (input = "ok" /\ pc \in {"git", "exit"}) =>
          /\ file.written
          /\ Len(file.lines) = 1 + Cardinality(MatchSet(rom_data))
          /\ file.lines[1] = [kind |-> "count",
                              count |-> Decimal(Cardinality(MatchSet(rom_data)))]
          /\ \A c \in 1..Cardinality(MatchSet(rom_data)) :
                LET block == file.lines[c + 1]
                    n == NthMatch(rom_data, c)
                IN  /\ block.kind = "block"
                    /\ block.offset = HexX(n)
                    /\ block.seq = HexBytes(WindowAt(rom_data, n))
                    /\ block.conv = HexBytes(Transformed(rom_data, n))
                    /\ (~Cp932Decode(Transformed(rom_data, n)).ok
                          => block.decoded = Sentinel)
                    /\ (Cp932Decode(Transformed(rom_data, n)).ok
                          => block.decoded = Cp932Decode(Transformed(rom_data, n)).text)

\* a written report whose first block is undecodable and whose second is not
C5_Witness ==
    /\ pc = "git"
    /\ Len(file.lines) = 3
    /\ file.lines[2].decoded = Sentinel
    /\ file.lines[3].decoded # Sentinel

\* C6: whatever fails in the git commands, the failure is caught and logged,
\* the process ends normally with the exit status of a successful push, and
\* the report is as it was written.
C6_GitFailureIsCaught ==
    (pc = "exit" /\ file.written) =>
        /\ exit_status = 0
        /\ ~traceback
        /\ stdout[Len(stdout)] \in {"pushed", "giterror"}
        /\ file = [written |-> TRUE, lines |-> output_lines]

\* C7: for a candidate that does not decode, the width-folded and the
\* kana-folded text are both the marker returned by decode_shift_jis.
C7_SentinelSurvivesFolds ==
    \A n \in 2..Len(output_lines) :
        output_lines[n].decoded = Sentinel =>
            /\ output_lines[n].fullwidth = Sentinel
            /\ output_lines[n].hiragana = Sentinel

\* C8: during the scan and after it, every candidate is a 4-byte window
\* equal to payload[offset..offset+3] with 0 <= offset < len(payload) - 3,
\* offsets strictly increase, and every matching offset below the scan
\* position is in the list exactly once.
C8_CandidateListInvariant ==
    (input = "ok" /\ pc \in {"scan", "report", "git", "exit"}) =>
        /\ \A c \in 1..Len(candidates) :
              /\ Len(candidates[c].seq) = 4
              /\ 0 <= candidates[c].offset
              /\ candidates[c].offset < Len(rom_data) - 3
              /\ candidates[c].offset < i
              /\ candidates[c].seq = WindowAt(rom_data, candidates[c].offset)
        /\ \A c \in 1..(Len(candidates) - 1) :
              candidates[c].offset < candidates[c + 1].offset
        /\ \A n \in 0..(i - 1) :
              Matches(rom_data, n) => \E c \in 1..Len(candidates) : candidates[c].offset = n
        /\ Len(candidates) = Cardinality({n \in 0..(i - 1) : Matches(rom_data, n)})

\* the scan is under way, has one candidate and will find another
C8_Witness ==
    /\ pc = "scan"
    /\ i = 2
    /\ Len(candidates) = 1
    /\ Matches(rom_data, 3)

\* C9: the kana fold is idempotent: folding the folded string changes
\* nothing, and a folded character (U+3041..U+3096) is outside U+30A1..U+30F6.
C9_KanaFoldIdempotent ==
    pc = "returned_twice" =>
        /\ ret2 = ret
        /\ \A n \in 1..Len(arg) :
              InFoldRange(arg[n]) =>
                 /\ 12353 <= ret[n] /\ ret[n] <= 12438
                 /\ ~InFoldRange(ret[n])

\* the fold was applied twice to a string that has katakana
C9_Witness ==
    /\ pc = "returned_twice"
    /\ \E n \in 1..Len(arg) : arg[n] = 12449 /\ ret[n] = 12353 /\ ret2[n] = 12353

\* C10: no two candidates have offsets 1 or 2 apart: when offset n matches,
\* n+1 and n+2 do not, so two matched windows share at most one byte.
C10_NoCloseMatches ==
    (input = "ok" /\ pc \in {"scan", "report", "git", "exit"}) =>
        /\ \A c, d \in 1..Len(candidates) :
              candidates[c].offset - candidates[d].offset \notin {1, 2}
        /\ \A n \in 0..Len(rom_data) :
              Matches(rom_data, n) => ~Matches(rom_data, n + 1) /\ ~Matches(rom_data, n + 2)

\* two candidates whose windows share one byte
C10_Witness ==
    /\ ScanFinished
    /\ Len(candidates) = 2
    /\ candidates[2].offset = candidates[1].offset + 3

====
